---- MODULE Spec2Model ----
(***************************************************************************)
(* A model of src/pmcfg.py: the reader (read_grammar) and the writer       *)
(* (write_grammar) of the PMCFG exchange format.                           *)
(*                                                                         *)
(* A line of text is modelled by what the reader looks at: the class of    *)
(* its first non-blank character, whether the character after a pragma     *)
(* marker is whitespace, and its whitespace-separated words.               *)
(* Python dicts are insertion-ordered: a dict is a sequence of [k, v]      *)
(* records with distinct keys.  Python's None is the empty tuple and a     *)
(* value x that may also be None is the one-element tuple <<x>>.           *)
(***************************************************************************)
EXTENDS Integers, Sequences, FiniteSets, TLC

\* ------------------------------------------------------------------------
\* Bounds of the model
\* ------------------------------------------------------------------------
\* The longest input read_grammar is given
MaxLines == 4
\* The longest input of a grammar that is written and read again
MaxWrittenLines == 3
\* The longest string given to read_sequence on its own
MaxStrLen == 5

\* ------------------------------------------------------------------------
\* Keywords (src/pmcfg.py:17-22)
\* ------------------------------------------------------------------------
PRAGMA == ":"
RULE == ":"
RULEARROW == "<-"
LINEARIZATION == "="
SEQUENCE == "->"
COMMENT == "#"

\* ------------------------------------------------------------------------
\* None / optional values
\* ------------------------------------------------------------------------
None == <<>>
Some(x) == <<x>>
Val(o) == o[1]

\* ------------------------------------------------------------------------
\* Insertion-ordered dicts
\* ------------------------------------------------------------------------
EmptyDict == <<>>
Keys(d) == {d[i].k : i \in DOMAIN d}
Has(d, key) == \E i \in DOMAIN d : d[i].k = key
Lookup(d, key) == d[CHOOSE i \in DOMAIN d : d[i].k = key].v
\* d.get(key): the value, or None when the key is missing
DictGet(d, key) == IF Has(d, key) THEN Lookup(d, key) ELSE None
\* d[key] = v
Put(d, key, val) ==
    IF Has(d, key)
    THEN [i \in DOMAIN d |-> IF d[i].k = key THEN [k |-> key, v |-> val] ELSE d[i]]
    ELSE Append(d, [k |-> key, v |-> val])
\* d.setdefault(key, v)
SetDefault(d, key, val) == IF Has(d, key) THEN d ELSE Append(d, [k |-> key, v |-> val])

RECURSIVE SetDefaultAll(_, _, _, _)
\* d.setdefault(keys[i], val) for i = 1..n, in order
SetDefaultAll(d, keys, n, val) ==
    IF n = 0 THEN d ELSE SetDefault(SetDefaultAll(d, keys, n - 1, val), keys[n], val)

\* ------------------------------------------------------------------------
\* Lines of text
\* ------------------------------------------------------------------------
\* lead:  class of the first non-blank character: "" (none, a blank line),
\*        "#" (a comment marker), ":" (the pragma marker), "a" (any other)
\* space: the character after a pragma marker is whitespace
\* words: the whitespace-separated words (of a pragma line: those after
\*        the marker)
Decl(words) == [lead |-> "a", space |-> FALSE, words |-> words]
PragmaLine(space, words) == [lead |-> PRAGMA, space |-> space, words |-> words]
BlankLine == [lead |-> "", space |-> FALSE, words |-> <<>>]
CommentLine(words) == [lead |-> COMMENT, space |-> FALSE, words |-> words]

\* The words of the model that start with an alphanumeric character or "_"
Identifier == {"f", "g", "S", "A", "B", "l1", "l2", "x", "y", "z",
               "3", "0:0", "1:0", "encoding", "utf8"}

\* is_identifier(s)
is_identifier(s) == s \in Identifier

\* Sequence tokens: a terminal string, or an (arg, ref) tuple
Lit(s) == [lit |-> s, arg |-> -1, ref |-> -1]
ArgRef(a, r) == [lit |-> "", arg |-> a, ref |-> r]
IsTuple(t) == t.arg >= 0

\* The texts SEQ_REGEXP matches in the model, with the token each stands for
\* (a quoted string is one word here: the model has no blank inside quotes)
TokenTexts == {"\"a\"", "\"b\"", "\"lit\"", "'a'", "'b'", "'lit'", "0:0", "1:0"}
TokenOf(w) ==
    CASE w \in {"\"a\"", "'a'"} -> Lit("a")
      [] w \in {"\"b\"", "'b'"} -> Lit("b")
      [] w \in {"\"lit\"", "'lit'"} -> Lit("lit")
      [] w = "0:0" -> ArgRef(0, 0)
      [] w = "1:0" -> ArgRef(1, 0)

\* Errors: the exception type and its message
NoError == [type |-> "none", msg |-> ""]
Raise(type, msg) == [type |-> type, msg |-> msg]

\* whitespace_split(s, nrsplits): the i-th field, "" when padded
Field(words, i) == IF i <= Len(words) THEN words[i] ELSE ""
\* the last field of whitespace_split(s, nrsplits): the rest of the line
Rest(words, nrsplits) ==
    IF Len(words) > nrsplits THEN SubSeq(words, nrsplits + 1, Len(words)) ELSE <<>>

\* read_sequence(seqstr)
read_sequence(rest) ==
    IF \E i \in DOMAIN rest : rest[i] \notin TokenTexts
    THEN [err |-> Raise("SyntaxError", "Not a sequence token"), tokens |-> <<>>]
    ELSE [err |-> NoError, tokens |-> [i \in DOMAIN rest |-> TokenOf(rest[i])]]

\* read_rule(rulestr)
read_rule(rest) ==
    IF Len(rest) <= 1 \/ rest[2] # RULEARROW
    THEN [err |-> Raise("SyntaxError", "Missing '<-' after left-hand side in rule"),
          lhs |-> "", rhs |-> <<>>]
    ELSE LET nonterms == <<rest[1]>> \o SubSeq(rest, 3, Len(rest))
         IN IF \E i \in DOMAIN nonterms : ~is_identifier(nonterms[i])
            THEN [err |-> Raise("SyntaxError", "Not an identifier"), lhs |-> "", rhs |-> <<>>]
            ELSE [err |-> NoError, lhs |-> nonterms[1], rhs |-> Tail(nonterms)]

\* read_linearization(linstr)
read_linearization(rest) ==
    IF \E i \in DOMAIN rest : ~is_identifier(rest[i])
    THEN [err |-> Raise("SyntaxError", "Not an identifier"), lin |-> <<>>]
    ELSE [err |-> NoError, lin |-> rest]

RECURSIVE collect_max_arities(_, _, _)
\* collect_max_arities(arities, argrefs), over argrefs[1..n]; a tuple of
\* argrefs is a record with arg and ref
collect_max_arities(arities, argrefs, n) ==
    IF n = 0 THEN arities
    ELSE LET a == collect_max_arities(arities, argrefs, n - 1)
             t == argrefs[n]
             old == IF Has(a, t.arg) THEN Lookup(a, t.arg) ELSE -1
         IN IF IsTuple(t)
            THEN Put(a, t.arg, IF old >= t.ref THEN old ELSE t.ref)
            ELSE a

\* ------------------------------------------------------------------------
\* read_grammar: the accumulator and the handling of one line
\* ------------------------------------------------------------------------
\* The local variables of read_grammar before the first line.  ident is the
\* variable of line 147, "" while it is unbound.  nonterms maps to None or
\* Some(arity), sequences to None or Some(tokens).
EmptyGrammar ==
    [pragmas |-> EmptyDict, functions |-> EmptyDict, linearizations |-> EmptyDict,
     sequences |-> EmptyDict, scores |-> EmptyDict, nonterms |-> EmptyDict,
     fun_arities |-> EmptyDict, seq_arities |-> EmptyDict, ident |-> ""]

Ok(g) == [g |-> g, raised |-> NoError]
Fail(g, type, msg) == [g |-> g, raised |-> Raise(type, msg)]

\* r in linearizations or r in functions or r in sequences
IsFunOrSeq(g, r) ==
    Has(g.linearizations, r) \/ Has(g.functions, r) \/ Has(g.sequences, r)
\* ident in nonterms or ident in sequences
IsNontermOrSeq(g, ident) == Has(g.nonterms, ident) \/ Has(g.sequences, ident)
\* ident in nonterms or ident in linearizations or ident in functions
IsNontermOrFun(g, ident) ==
    Has(g.nonterms, ident) \/ Has(g.linearizations, ident) \/ Has(g.functions, ident)

\* if rest[0] == PRAGMA: ... continue
PragmaDeclOverwrite(g, line) ==
    LET pragma == IF line.space THEN None ELSE Some(Field(line.words, 1))
        info == IF line.space THEN line.words ELSE Rest(line.words, 1)
    IN Ok([g EXCEPT !.pragmas = Put(@, pragma, <<info>>)])

PragmaDecl(g, line) ==
    LET pragma == IF line.space THEN None ELSE Some(Field(line.words, 1))
        info == IF line.space THEN line.words ELSE Rest(line.words, 1)
        old == IF Has(g.pragmas, pragma) THEN Lookup(g.pragmas, pragma) ELSE <<>>
    IN Ok([g EXCEPT !.pragmas = Put(@, pragma, Append(old, info))])

\* if keyword == RULE: ...
RuleDecl(g, ident, rest) ==
    LET p == read_rule(rest)
        lhs == p.lhs
        rhs == p.rhs
        old == IF Has(g.functions, ident) THEN Lookup(g.functions, ident) ELSE <<>>
        g1 == [g EXCEPT !.functions = Put(@, ident, Append(old, [lhs |-> lhs, rhs |-> rhs]))]
        lhs_arity == DictGet(g.nonterms, lhs)
        fun_arity == IF Has(g.fun_arities, ident)
                     THEN Some(Lookup(g.fun_arities, ident)) ELSE None
        g2 == IF fun_arity # None /\ lhs_arity = None
              THEN [g1 EXCEPT !.nonterms = Put(@, lhs, fun_arity)] ELSE g1
        clash == {i \in DOMAIN rhs : IsFunOrSeq(g2, rhs[i])}
        first == CHOOSE i \in clash : \A j \in clash : i <= j
        g3 == [g2 EXCEPT !.nonterms =
                  SetDefaultAll(@, rhs, IF clash = {} THEN Len(rhs) ELSE first, None)]
    IN IF p.err # NoError THEN [g |-> g, raised |-> p.err]
       ELSE IF fun_arity # None /\ lhs_arity # None /\ lhs_arity # fun_arity
       THEN Fail(g1, "ValueError", "Nonterminal does not match function")
       ELSE IF clash # {}
       THEN Fail(g3, "ValueError", "Nonterminal already occurs as a function or a sequence identifier")
       ELSE IF IsFunOrSeq(g3, lhs)
       THEN Fail(g3, "ValueError", "Nonterminal already occurs as a function or a sequence identifier")
       ELSE IF IsNontermOrSeq(g3, ident)
       THEN Fail(g3, "ValueError", "Function already occurs as a nonterminal or a sequence identifier")
       ELSE Ok(g3)

RECURSIVE PropagateArityNoCheck(_, _, _, _)
\* PropagateArity without the comparison of a known arity
PropagateArityNoCheck(nonterms, rules, i, fun_arity) ==
    IF i > Len(rules) THEN [nonterms |-> nonterms, ok |-> TRUE]
    ELSE IF DictGet(nonterms, rules[i].lhs) = None
    THEN PropagateArityNoCheck(Put(nonterms, rules[i].lhs, Some(fun_arity)),
                               rules, i + 1, fun_arity)
    ELSE PropagateArityNoCheck(nonterms, rules, i + 1, fun_arity)

RECURSIVE PropagateArityNoSet(_, _, _, _)
\* PropagateArity that leaves an unknown arity unknown
PropagateArityNoSet(nonterms, rules, i, fun_arity) ==
    IF i > Len(rules) THEN [nonterms |-> nonterms, ok |-> TRUE]
    ELSE IF DictGet(nonterms, rules[i].lhs) \notin {None, Some(fun_arity)}
    THEN [nonterms |-> nonterms, ok |-> FALSE]
    ELSE PropagateArityNoSet(nonterms, rules, i + 1, fun_arity)

RECURSIVE PropagateArity(_, _, _, _)
\* for lhs, _rhs in functions.get(ident, []): ... over rules[i..], stopping at
\* the first mismatch
PropagateArity(nonterms, rules, i, fun_arity) ==
    IF i > Len(rules) THEN [nonterms |-> nonterms, ok |-> TRUE]
    ELSE LET lhs == rules[i].lhs
             lhs_arity == DictGet(nonterms, lhs)
         IN IF lhs_arity = None
            THEN PropagateArity(Put(nonterms, lhs, Some(fun_arity)), rules, i + 1, fun_arity)
            ELSE IF lhs_arity # Some(fun_arity)
            THEN [nonterms |-> nonterms, ok |-> FALSE]
            ELSE PropagateArity(nonterms, rules, i + 1, fun_arity)

\* elif keyword == LINEARIZATION: ...
LinearizationDecl(g, ident, rest) ==
    LET p == read_linearization(rest)
        lin == p.lin
        fun_arity == Len(lin)
        g1 == [g EXCEPT !.linearizations = Put(@, ident, lin),
                        !.fun_arities = Put(@, ident, fun_arity)]
        rules == IF Has(g.functions, ident) THEN Lookup(g.functions, ident) ELSE <<>>
        pa == PropagateArity(g1.nonterms, rules, 1, fun_arity)
        g2 == [g1 EXCEPT !.nonterms = pa.nonterms]
        g3 == [g2 EXCEPT !.sequences = SetDefaultAll(@, lin, Len(lin), None)]
    IN IF p.err # NoError THEN [g |-> g, raised |-> p.err]
       ELSE IF Has(g.linearizations, ident)
       \* "Duplicate linearization for %r" (ident,) calls a string
       THEN Fail(g, "TypeError", "'str' object is not callable")
       ELSE IF ~pa.ok
       THEN Fail(g2, "ValueError", "Nonterminal does not match function")
       ELSE IF IsNontermOrSeq(g3, ident)
       THEN Fail(g3, "ValueError", "Function already occurs as a nonterminal or a sequence identifier")
       ELSE Ok(g3)

\* elif keyword == SEQUENCE: ...
SequenceDecl(g, ident, rest) ==
    LET p == read_sequence(rest)
        tokens == p.tokens
        g1 == [g EXCEPT !.sequences = Put(@, ident, Some(tokens)),
                        !.seq_arities = Put(@, ident,
                              collect_max_arities(EmptyDict, tokens, Len(tokens)))]
    IN IF p.err # NoError THEN [g |-> g, raised |-> p.err]
       ELSE IF DictGet(g.sequences, ident) # None
       THEN Fail(g, "ValueError", "Duplicate sequence")
       ELSE IF IsNontermOrFun(g1, ident)
       THEN Fail(g1, "ValueError", "Sequence already occurs as a nonterminal or a function")
       ELSE Ok(g1)

\* The keywords of the model that int() or float() accept, and their values
ScoreTexts == {"3"}
ScoreOf(keyword) == CASE keyword = "3" -> 3

\* else: (a score declaration)
ScoreDecl(g, ident, keyword, rest) ==
    IF keyword \notin ScoreTexts
    THEN Fail(g, "SyntaxError", "Not a correct score")
    ELSE IF rest # <<>>
    THEN Fail(g, "SyntaxError", "Extra information in score declaration")
    ELSE IF Has(g.scores, ident)
    \* "Duplicate score for %r" (ident,) calls a string
    THEN Fail(g, "TypeError", "'str' object is not callable")
    ELSE Ok([g EXCEPT !.scores = Put(@, ident, ScoreOf(keyword))])

\* The body of the try statement, for one line
ProcessLine(g, line) ==
    IF line.lead = "" \/ line.lead = COMMENT THEN Ok(g)
    ELSE IF line.lead = PRAGMA THEN PragmaDecl(g, line)
    ELSE LET ident == Field(line.words, 1)
             keyword == Field(line.words, 2)
             rest == Rest(line.words, 2)
             g0 == [g EXCEPT !.ident = ident]
         IN IF ~is_identifier(ident) THEN Fail(g0, "SyntaxError", "Not an identifier")
            ELSE IF keyword = RULE THEN RuleDecl(g0, ident, rest)
            ELSE IF keyword = LINEARIZATION THEN LinearizationDecl(g0, ident, rest)
            ELSE IF keyword = SEQUENCE THEN SequenceDecl(g0, ident, rest)
            ELSE ScoreDecl(g0, ident, keyword, rest)

\* How the lines reach read_grammar, as fileinput sees it:
\*   "none"    no fileinput is active (lines is a list): filename() raises
\*   "unread"  a fileinput is active but has read no line: filename() is None
\*   "reading" lines is the active fileinput: filename() is the file's name
FileStates == {"none", "unread", "reading"}

NoContext == [file |-> FALSE, lineno |-> 0, line |-> BlankLine]
NoException == [type |-> "none", msg |-> "", ctx |-> NoContext]

\* A handler that skips the line that raised and goes on with the next
HandleErrorSkip(err, fi, line, lineno) == NoException

\* except (SyntaxError, ValueError) as err: ...  The exception that leaves
\* read_grammar when the body raised err on the lineno-th line
HandleError(err, fi, line, lineno) ==
    IF err.type \notin {"SyntaxError", "ValueError"}
    THEN [type |-> err.type, msg |-> err.msg, ctx |-> NoContext]
    ELSE IF fi = "none"
    THEN [type |-> "RuntimeError", msg |-> "no active input()", ctx |-> NoContext]
    ELSE IF fi = "unread"
    THEN [type |-> err.type, msg |-> err.msg,
          ctx |-> [file |-> FALSE, lineno |-> 0, line |-> line]]
    ELSE [type |-> err.type, msg |-> err.msg,
          ctx |-> [file |-> TRUE, lineno |-> lineno, line |-> line]]

\* ------------------------------------------------------------------------
\* read_grammar: the deferred validation (if validate: ...)
\* ------------------------------------------------------------------------
\* A warning: its kind, the identifiers and the numbers its message names
Warning(kind, names, nums) == [kind |-> kind, names |-> names, nums |-> nums]

\* The state of the sweep: the warnings given so far, in order, and the
\* exception that ended it ("none" while it runs)
SweepStart == [warnings |-> <<>>, exc |-> "none"]
Warn(acc, w) == [acc EXCEPT !.warnings = Append(@, w)]
Throw(acc, type) == [acc EXCEPT !.exc = type]

\* seq_arities[seq].items(): the (arg, maxref) tuples of a cached map
Items(d) == [i \in DOMAIN d |-> ArgRef(d[i].k, d[i].v)]

RECURSIVE MergeArities(_, _, _, _)
\* for seq in lin: collect_max_arities(arities, seq_arities[seq].items()),
\* over lin[i..]; ok is FALSE when seq_arities[seq] raises KeyError
MergeArities(g, arities, lin, i) ==
    IF i > Len(lin) THEN [arities |-> arities, ok |-> TRUE]
    ELSE IF ~Has(g.seq_arities, lin[i]) THEN [arities |-> arities, ok |-> FALSE]
    ELSE LET items == Items(Lookup(g.seq_arities, lin[i]))
         IN MergeArities(g, collect_max_arities(arities, items, Len(items)), lin, i + 1)

RECURSIVE CheckArgs(_, _, _, _, _, _)
\* for arg, maxref in arities.items(): ... over the entries k.. of arities
CheckArgs(g, fun, rhs, arities, k, acc) ==
    IF k > Len(arities) THEN acc
    ELSE LET arg == arities[k].k
             maxref == arities[k].v
             rhs_arity == DictGet(g.nonterms, rhs[arg + 1])
         IN IF arg >= Len(rhs)
            \* the warning is given, then rhs[arg] raises IndexError
            THEN Throw(Warn(acc, Warning("Linearization refers to argument out of range",
                                         {fun}, <<arg, Len(rhs)>>)), "IndexError")
            ELSE IF rhs_arity = None
            THEN CheckArgs(g, fun, rhs, arities, k + 1,
                     Warn(acc, Warning("Missing definition for nonterminal", {rhs[arg + 1]}, <<>>)))
            ELSE IF Val(rhs_arity) <= maxref
            THEN CheckArgs(g, fun, rhs, arities, k + 1,
                     Warn(acc, Warning("Reference does not match arity", {fun, rhs[arg + 1]},
                                       <<arg, maxref, Val(rhs_arity)>>)))
            ELSE CheckArgs(g, fun, rhs, arities, k + 1, acc)

RECURSIVE CheckRules(_, _, _, _, _, _)
\* for lhs, rhs in rules: ... over rules[j..]
CheckRules(g, fun, rules, arities, j, acc) ==
    IF j > Len(rules) \/ acc.exc # "none" THEN acc
    ELSE LET lhs == rules[j].lhs
             rhs == rules[j].rhs
             fun_arity == Lookup(g.fun_arities, fun)
             lhs_arity == Lookup(g.nonterms, lhs)
             acc1 == IF Some(fun_arity) # lhs_arity
                     THEN Warn(acc, Warning("Nonterminal does not match function",
                                            {lhs, g.ident}, <<fun_arity>>))
                     ELSE acc
         IN IF ~Has(g.nonterms, lhs) THEN Throw(acc, "KeyError")
            ELSE CheckRules(g, fun, rules, arities, j + 1,
                            CheckArgs(g, fun, rhs, arities, 1, acc1))

RECURSIVE CheckFunctions(_, _, _)
\* for fun, rules in functions.items(): ... over the entries i.. of functions
CheckFunctions(g, i, acc) ==
    IF i > Len(g.functions) \/ acc.exc # "none" THEN acc
    ELSE LET fun == g.functions[i].k
             rules == g.functions[i].v
             m == MergeArities(g, EmptyDict, Lookup(g.linearizations, fun), 1)
         IN IF ~Has(g.linearizations, fun)
            THEN CheckFunctions(g, i + 1,
                     Warn(acc, Warning("Missing linearization for function", {fun}, <<>>)))
            ELSE IF ~m.ok THEN Throw(acc, "KeyError")
            ELSE CheckFunctions(g, i + 1, CheckRules(g, fun, rules, m.arities, 1, acc))

\* Validate that reports every nonterminal as undefined
ValidateAllNonterms(g) ==
    LET undefined_nonterms == Keys(g.nonterms)
        undefined_sequences == {g.sequences[i].k : i \in {j \in DOMAIN g.sequences : g.sequences[j].v = None}}
        acc1 == IF undefined_nonterms # {}
                THEN Warn(SweepStart, Warning("Undefined nonterminals", undefined_nonterms, <<>>))
                ELSE SweepStart
        acc2 == IF undefined_sequences # {}
                THEN Warn(acc1, Warning("Undefined sequences", undefined_sequences, <<>>))
                ELSE acc1
    IN CheckFunctions(g, 1, acc2)

\* The whole of `if validate: ...`
Validate(g) ==
    LET undefined_nonterms == {g.nonterms[i].k : i \in {j \in DOMAIN g.nonterms : g.nonterms[j].v = None}}
        undefined_sequences == {g.sequences[i].k : i \in {j \in DOMAIN g.sequences : g.sequences[j].v = None}}
        acc1 == IF undefined_nonterms # {}
                THEN Warn(SweepStart, Warning("Undefined nonterminals", undefined_nonterms, <<>>))
                ELSE SweepStart
        acc2 == IF undefined_sequences # {}
                THEN Warn(acc1, Warning("Undefined sequences", undefined_sequences, <<>>))
                ELSE acc1
    IN CheckFunctions(g, 1, acc2)

\* return dict(pragmas = pragmas, ..., nonterms = nonterms)
GrammarDict(g) ==
    [pragmas |-> g.pragmas, functions |-> g.functions,
     linearizations |-> g.linearizations, sequences |-> g.sequences,
     scores |-> g.scores, nonterms |-> g.nonterms]

\* ------------------------------------------------------------------------
\* write_grammar
\* ------------------------------------------------------------------------
RECURSIVE Flatten(_)
\* The concatenation of a sequence of sequences
Flatten(ss) == IF ss = <<>> THEN <<>> ELSE Head(ss) \o Flatten(Tail(ss))

\* str_token(token): "%s:%s" of a tuple, repr() of a string
str_token(token) ==
    CASE token = ArgRef(0, 0) -> "0:0"
      [] token = ArgRef(1, 0) -> "1:0"
      [] token = Lit("a") -> "'a'"
      [] token = Lit("b") -> "'b'"
      [] token = Lit("lit") -> "'lit'"

\* "%s" of a score
ScoreText(score) == CASE score = 3 -> "3"

\* print("%s%s %s" % (PRAGMA, pid, prg)): with an empty pid the marker is
\* followed by the blank
PragmaText(pid, prg) ==
    LET name == IF pid = None THEN "" ELSE Val(pid)
    IN IF name = "" THEN PragmaLine(TRUE, prg) ELSE PragmaLine(FALSE, <<name>> \o prg)

\* The lines of the pragma section
PragmaSection(pragmas) ==
    IF pragmas = EmptyDict THEN <<>>
    ELSE <<CommentLine(<<"#", "Pragmas">>)>>
         \o Flatten([i \in DOMAIN pragmas |->
                [j \in DOMAIN pragmas[i].v |-> PragmaText(pragmas[i].k, pragmas[i].v[j])]])
         \o <<BlankLine>>

\* print("%s %s %s %s %s" % (fid, RULE, lhs, RULEARROW, " ".join(rhs)))
RuleText(fid, rule) == Decl(<<fid, RULE, rule.lhs, RULEARROW>> \o rule.rhs)

RuleSection(functions) ==
    <<CommentLine(<<"#", "Functions/rules">>)>>
    \o Flatten([i \in DOMAIN functions |->
           [j \in DOMAIN functions[i].v |-> RuleText(functions[i].k, functions[i].v[j])]])
    \o <<BlankLine>>

\* print("%s %s %s" % (fid, LINEARIZATION, " ".join(lin)))
LinearizationText(fid, lin) == Decl(<<fid, LINEARIZATION>> \o lin)

LinearizationSection(linearizations) ==
    <<CommentLine(<<"#", "Linearizations">>)>>
    \o [i \in DOMAIN linearizations |->
           LinearizationText(linearizations[i].k, linearizations[i].v)]
    \o <<BlankLine>>

\* print("%s %s %s" % (sid, SEQUENCE, " ".join(map(str_token, seq))))
SequenceText(sid, seq) ==
    Decl(<<sid, SEQUENCE>> \o [i \in DOMAIN Val(seq) |-> str_token(Val(seq)[i])])

\* One "Sequences" section; map(str_token, None) raises TypeError, after the
\* lines of the sequences before it were printed
SequenceSection(sequences) ==
    LET undef == {i \in DOMAIN sequences : sequences[i].v = None}
        stop == IF undef = {} THEN Len(sequences) + 1
                ELSE CHOOSE i \in undef : \A j \in undef : i <= j
    IN [lines |-> <<CommentLine(<<"#", "Sequences">>)>>
                  \o [i \in 1 .. (stop - 1) |-> SequenceText(sequences[i].k, sequences[i].v)]
                  \o (IF undef = {} THEN <<BlankLine>> ELSE <<>>),
        exc |-> IF undef = {} THEN "none" ELSE "TypeError"]

\* print("%s %s" % (fid, score))
ScoreSection(scores) ==
    IF scores = EmptyDict THEN <<>>
    ELSE <<CommentLine(<<"#", "Scores">>)>>
         \o [i \in DOMAIN scores |-> Decl(<<scores[i].k, ScoreText(scores[i].v)>>)]
         \o <<BlankLine>>

\* write_grammar(**grammar): the lines printed and the exception raised
write_grammar(grammar) ==
    LET head == <<BlankLine>> \o PragmaSection(grammar.pragmas)
                \o RuleSection(grammar.functions)
                \o LinearizationSection(grammar.linearizations)
        seqs == SequenceSection(grammar.sequences)
    IN IF seqs.exc # "none"
       THEN [lines |-> head \o seqs.lines, exc |-> seqs.exc]
       ELSE [lines |-> head \o seqs.lines \o seqs.lines \o ScoreSection(grammar.scores),
             exc |-> "none"]

\* ------------------------------------------------------------------------
\* read_grammar as a function of its whole input
\* ------------------------------------------------------------------------
RECURSIVE ReadLines(_, _, _)
\* for line in lines: ... from line i on; at is the number of the line that
\* raised
ReadLines(g, lines, i) ==
    IF i > Len(lines) THEN [g |-> g, raised |-> NoError, at |-> 0]
    ELSE LET r == ProcessLine(g, lines[i])
         IN IF r.raised # NoError THEN [g |-> r.g, raised |-> r.raised, at |-> i]
            ELSE ReadLines(r.g, lines, i + 1)

NoResult == [result |-> None, exc |-> NoException, warnings |-> <<>>]

\* read_grammar(lines, validate)
read_grammar(lines, validate, fi) ==
    LET r == ReadLines(EmptyGrammar, lines, 1)
        v == IF validate THEN Validate(r.g) ELSE SweepStart
    IN IF r.raised # NoError
       THEN [NoResult EXCEPT !.exc = HandleError(r.raised, fi, lines[r.at], r.at)]
       ELSE IF v.exc # "none"
       THEN [NoResult EXCEPT !.exc = [type |-> v.exc, msg |-> "", ctx |-> NoContext],
                             !.warnings = v.warnings]
       ELSE [NoResult EXCEPT !.result = Some(GrammarDict(r.g)), !.warnings = v.warnings]

\* ------------------------------------------------------------------------
\* The lines the model feeds to read_grammar
\* ------------------------------------------------------------------------
RuleSAB == Decl(<<"f", ":", "S", "<-", "A", "B">>)
RuleSA == Decl(<<"f", ":", "S", "<-", "A">>)
RuleG == Decl(<<"g", ":", "S", "<-">>)
RuleYXZ == Decl(<<"y", ":", "x", "<-", "z">>)
RuleNoArrow == Decl(<<"f", ":", "S", "A">>)
LinF2 == Decl(<<"f", "=", "l1", "l2">>)
LinG == Decl(<<"g", "=", "x">>)
SeqL1 == Decl(<<"l1", "->", "\"a\"", "0:0">>)
SeqL2 == Decl(<<"l2", "->", "\"b\"", "1:0">>)
SeqS == Decl(<<"S", "->", "\"a\"">>)
SeqX == Decl(<<"x", "->", "\"lit\"">>)
ScoreF == Decl(<<"f", "3">>)
PragmaEncoding == PragmaLine(TRUE, <<"encoding", "utf8">>)
PragmaBare == PragmaLine(FALSE, <<>>)

InputLines ==
    {RuleSAB, RuleSA, RuleG, RuleYXZ, RuleNoArrow, LinF2, LinG,
     SeqL1, SeqL2, SeqS, SeqX, ScoreF, PragmaEncoding, PragmaBare}

\* ------------------------------------------------------------------------
\* read_sequence on the characters of a string (code points)
\* ------------------------------------------------------------------------
DQ == 34
SQ == 39
BS == 92
SP == 32
COLON == 58

\* \s, \d of the regular expression on ASCII; the octal and hexadecimal
\* digits of a Python string literal
IsSpace(c) == c \in {9, 10, 11, 12, 13, 28, 29, 30, 31, 32}
IsDigit(c) == c \in 48 .. 57
IsOct(c) == c \in 48 .. 55
HexVal(c) ==
    IF c \in 48 .. 57 THEN c - 48
    ELSE IF c \in 97 .. 102 THEN c - 87
    ELSE IF c \in 65 .. 70 THEN c - 55
    ELSE -1

\* The tokens read_sequence appends: a str, or a tuple of two ints
Literal(chars) == [kind |-> "str", chars |-> chars, arg |-> -1, ref |-> -1]
Pair(a, r) == [kind |-> "tuple", chars |-> <<>>, arg |-> a, ref |-> r]

RECURSIVE QuotedEnd(_, _, _)
\* q [^q\\]* (?: \\. [^q\\]* )* q from the character after the opening quote:
\* the index of the closing quote, the first one no backslash escapes; 0 when
\* there is none ("." matches no newline)
QuotedEnd(s, i, q) ==
    IF i > Len(s) THEN 0
    ELSE IF s[i] = q THEN i
    ELSE IF s[i] = BS
         THEN IF i + 1 > Len(s) \/ s[i + 1] = 10 THEN 0 ELSE QuotedEnd(s, i + 2, q)
    ELSE QuotedEnd(s, i + 1, q)

RECURSIVE DigitsEnd(_, _)
\* \d+ is greedy: the index after the run of digits from i
DigitsEnd(s, i) == IF i <= Len(s) /\ IsDigit(s[i]) THEN DigitsEnd(s, i + 1) ELSE i

RECURSIVE SpaceEnd(_, _)
\* \s+ is greedy: the index after the run of whitespace from i
SpaceEnd(s, i) == IF i <= Len(s) /\ IsSpace(s[i]) THEN SpaceEnd(s, i + 1) ELSE i

\* (?: \s+ | $) at index i: m.end(), or -1 when neither matches ($ before
\* a final newline is a case of \s+)
Trailer(s, i) ==
    IF i <= Len(s) /\ IsSpace(s[i]) THEN SpaceEnd(s, i) - 1
    ELSE IF i = Len(s) + 1 THEN i - 1
    ELSE -1

NoMatch == [ok |-> FALSE, group1 |-> None, group2 |-> <<>>, group3 |-> <<>>, end |-> -1]

\* SEQ_REGEXP.match(seqstr, pos): no choice of the regular expression has a
\* second way to match, so backtracking finds nothing more
SEQ_REGEXP(s, p) ==
    LET i == p + 1
        c == s[i]
    IN IF c \in {DQ, SQ}
       THEN LET e == QuotedEnd(s, i + 1, c)
                t == IF e = 0 THEN -1 ELSE Trailer(s, e + 1)
            IN IF t < 0 THEN NoMatch
               ELSE [ok |-> TRUE, group1 |-> Some(SubSeq(s, i, e)),
                     group2 |-> <<>>, group3 |-> <<>>, end |-> t]
       ELSE IF IsDigit(c)
       THEN LET a == DigitsEnd(s, i)
                b == IF a <= Len(s) /\ s[a] = COLON THEN DigitsEnd(s, a + 1) ELSE 0
                t == IF b <= a + 1 THEN -1 ELSE Trailer(s, b)
            IN IF t < 0 THEN NoMatch
               ELSE [ok |-> TRUE, group1 |-> None, group2 |-> SubSeq(s, i, a - 1),
                     group3 |-> SubSeq(s, a + 1, b - 1), end |-> t]
       ELSE NoMatch

RECURSIVE int(_)
\* int() of a run of decimal digits
int(ds) == IF ds = <<>> THEN 0 ELSE int(SubSeq(ds, 1, Len(ds) - 1)) * 10 + (ds[Len(ds)] - 48)

RECURSIVE OctVal(_)
OctVal(ds) == IF ds = <<>> THEN 0 ELSE OctVal(SubSeq(ds, 1, Len(ds) - 1)) * 8 + (ds[Len(ds)] - 48)

\* The escapes of one character: \\ \' \" \n \t \r \a \b \f \v
SimpleEscape(e) ==
    CASE e = 92 -> 92 [] e = 39 -> 39 [] e = 34 -> 34 [] e = 110 -> 10
      [] e = 116 -> 9 [] e = 114 -> 13 [] e = 97 -> 7 [] e = 98 -> 8
      [] e = 102 -> 12 [] e = 118 -> 11 [] OTHER -> -1

\* The escape sequence b starts with: the characters it stands for and its
\* length. \x wants two hexadecimal digits, or the literal is a SyntaxError;
\* up to three octal digits are one character; an escape Python does not
\* know stays as it is. (The strings of the model hold no line end and
\* no \N, \u, \U.)
EscapeAt(b) ==
    LET e == b[2]
    IN IF SimpleEscape(e) >= 0 THEN [ok |-> TRUE, chars |-> <<SimpleEscape(e)>>, n |-> 2]
       ELSE IF IsOct(e)
       THEN LET k == IF Len(b) >= 3 /\ IsOct(b[3])
                     THEN (IF Len(b) >= 4 /\ IsOct(b[4]) THEN 3 ELSE 2)
                     ELSE 1
            IN [ok |-> TRUE, chars |-> <<OctVal(SubSeq(b, 2, 1 + k))>>, n |-> 1 + k]
       ELSE IF e = 120
       THEN IF Len(b) >= 4 /\ HexVal(b[3]) >= 0 /\ HexVal(b[4]) >= 0
            THEN [ok |-> TRUE, chars |-> <<HexVal(b[3]) * 16 + HexVal(b[4])>>, n |-> 4]
            ELSE [ok |-> FALSE, chars |-> <<>>, n |-> 2]
       ELSE [ok |-> TRUE, chars |-> <<BS, e>>, n |-> 2]

RECURSIVE Unescape(_)
\* The value of the string literal with body b, as eval gives it
Unescape(b) ==
    IF b = <<>> THEN [ok |-> TRUE, chars |-> <<>>]
    ELSE IF b[1] # BS
         THEN LET r == Unescape(Tail(b))
              IN [ok |-> r.ok, chars |-> <<b[1]>> \o r.chars]
    ELSE LET h == EscapeAt(b)
             r == Unescape(SubSeq(b, h.n + 1, Len(b)))
         IN IF h.ok THEN [ok |-> r.ok, chars |-> h.chars \o r.chars]
            ELSE [ok |-> FALSE, chars |-> <<>>]

\* eval(tok) of the text of a quoted string
eval(tok) == Unescape(SubSeq(tok, 2, Len(tok) - 1))

\* The exceptions of read_sequence: rest is None, or Some(the text the
\* message shows)
NoTokenError == [type |-> "none", msg |-> "", rest |-> None]
NotASequenceToken(rest) ==
    [type |-> "SyntaxError", msg |-> "Not a sequence token", rest |-> Some(rest)]
TruncatedEscape ==
    [type |-> "SyntaxError", msg |-> "(unicode error) truncated \\xXX escape", rest |-> None]

\* The strings given to read_sequence: all strings up to MaxStrLen of quotes,
\* backslash, blank, "0", ":" and "x", and the body "hi there" 0:1 'x'
SeqChars == {DQ, SQ, BS, SP, 48, COLON, 120}
HiThere == <<104, 105, 32, 116, 104, 101, 114, 101>>
Example4 == <<DQ>> \o HiThere \o <<DQ, SP, 48, COLON, 49, SP, SQ, 120, SQ>>
SeqStrings == UNION {[1 .. n -> SeqChars] : n \in 0 .. MaxStrLen} \cup {Example4}

\* ------------------------------------------------------------------------
\* The state machine
\* ------------------------------------------------------------------------
VARIABLES
    pc,              \* "reading", "aborted", "returned", "written", "reread"
    input,           \* the lines read_grammar has taken from lines
    validate,        \* the parameter of read_grammar
    pragmas, functions, linearizations, sequences, scores,
    nonterms, fun_arities, seq_arities,
    ident,           \* the identifier of the last declaration line
    raised,          \* the error raised by the body of the try statement
    exc,             \* the exception that left read_grammar
    warnings,        \* the warnings given by the sweep, in order
    result,          \* None, or Some(the dict read_grammar returned)
    output,          \* what write_grammar printed for result
    reread,          \* None, or Some(what reading output again gave)
    seqstr,          \* the parameter of read_sequence, as code points
    pos,             \* read_sequence's position in seqstr (from 0)
    tokens,          \* read_sequence's list of tokens
    tokpc,           \* "idle", "matching", "returned", "raised"
    tokerr,          \* the exception that left read_sequence
    tokresult        \* None, or Some(the list read_sequence returned)

grammar == <<pragmas, functions, linearizations, sequences, scores,
             nonterms, fun_arities, seq_arities, ident>>
tokenizer == <<seqstr, pos, tokens, tokpc, tokerr, tokresult>>
vars == <<pc, input, validate, grammar, raised, exc, warnings, result, output, reread,
          tokenizer>>

\* The accumulator as one record
G ==
    [pragmas |-> pragmas, functions |-> functions, linearizations |-> linearizations,
     sequences |-> sequences, scores |-> scores, nonterms |-> nonterms,
     fun_arities |-> fun_arities, seq_arities |-> seq_arities, ident |-> ident]

SetGrammar(g) ==
    /\ pragmas' = g.pragmas
    /\ functions' = g.functions
    /\ linearizations' = g.linearizations
    /\ sequences' = g.sequences
    /\ scores' = g.scores
    /\ nonterms' = g.nonterms
    /\ fun_arities' = g.fun_arities
    /\ seq_arities' = g.seq_arities
    /\ ident' = g.ident

NoOutput == [lines |-> <<>>, exc |-> "none"]

\* No call of read_sequence on its own
TokenizerIdle ==
    /\ seqstr = <<>>
    /\ pos = 0
    /\ tokens = <<>>
    /\ tokpc = "idle"
    /\ tokerr = NoTokenError
    /\ tokresult = None

Init ==
    /\ TokenizerIdle
    /\ pc = "reading"
    /\ input = <<>>
    /\ validate \in BOOLEAN
    /\ pragmas = EmptyDict
    /\ functions = EmptyDict
    /\ linearizations = EmptyDict
    /\ sequences = EmptyDict
    /\ scores = EmptyDict
    /\ nonterms = EmptyDict
    /\ fun_arities = EmptyDict
    /\ seq_arities = EmptyDict
    /\ ident = ""
    /\ raised = NoError
    /\ exc = NoException
    /\ warnings = <<>>
    /\ result = None
    /\ output = NoOutput
    /\ reread = None

\* One iteration of `for line in lines:`, ending in the next iteration or in
\* the exception leaving read_grammar
ReadLine(line, fi) ==
    /\ pc = "reading"
    /\ Len(input) < MaxLines
    /\ LET r == ProcessLine(G, line)
           e == IF r.raised = NoError THEN NoException
                ELSE HandleError(r.raised, fi, line, Len(input) + 1)
       IN /\ input' = Append(input, line)
          /\ SetGrammar(r.g)
          /\ raised' = r.raised
          /\ exc' = e
          /\ pc' = IF e = NoException THEN "reading" ELSE "aborted"
    /\ UNCHANGED <<validate, warnings, result, output, reread, tokenizer>>

RECURSIVE ReferencedSequences(_, _)
\* The sequences named by the linearizations of the functions i.. that have
\* rules, in the order the sweep meets them
ReferencedSequences(g, i) ==
    IF i > Len(g.functions) THEN <<>>
    ELSE (IF Has(g.linearizations, g.functions[i].k)
          THEN Lookup(g.linearizations, g.functions[i].k) ELSE <<>>)
         \o ReferencedSequences(g, i + 1)

\* EndOfInput with a sweep that reads seq_arities.setdefault(seq, {}) where
\* the code reads seq_arities[seq]: it caches an empty map for every
\* sequence it meets that has none
EndOfInputSetDefault ==
    /\ pc = "reading"
    /\ LET refs == ReferencedSequences(G, 1)
           cached == IF validate
                     THEN SetDefaultAll(seq_arities, refs, Len(refs), EmptyDict)
                     ELSE seq_arities
           v == IF validate THEN Validate([G EXCEPT !.seq_arities = cached]) ELSE SweepStart
       IN /\ seq_arities' = cached
          /\ warnings' = v.warnings
          /\ exc' = IF v.exc = "none" THEN NoException
                    ELSE [type |-> v.exc, msg |-> "", ctx |-> NoContext]
          /\ result' = IF v.exc = "none" THEN Some(GrammarDict(G)) ELSE None
          /\ pc' = IF v.exc = "none" THEN "returned" ELSE "aborted"
    /\ UNCHANGED <<input, validate, pragmas, functions, linearizations, sequences,
                   scores, nonterms, fun_arities, ident, raised, output, reread,
                   tokenizer>>

\* lines is exhausted: the sweep if validate, then the return
EndOfInput ==
    /\ pc = "reading"
    /\ LET v == IF validate THEN Validate(G) ELSE SweepStart
       IN /\ warnings' = v.warnings
          /\ exc' = IF v.exc = "none" THEN NoException
                    ELSE [type |-> v.exc, msg |-> "", ctx |-> NoContext]
          /\ result' = IF v.exc = "none" THEN Some(GrammarDict(G)) ELSE None
          /\ pc' = IF v.exc = "none" THEN "returned" ELSE "aborted"
    /\ UNCHANGED <<input, validate, grammar, raised, output, reread, tokenizer>>

\* write_grammar(**grammar) on the dict read_grammar returned
WriteGrammar ==
    /\ pc = "returned"
    /\ Len(input) <= MaxWrittenLines
    /\ output' = write_grammar(Val(result))
    /\ pc' = "written"
    /\ UNCHANGED <<input, validate, grammar, raised, exc, warnings, result, reread, tokenizer>>

\* read_grammar on the text write_grammar printed
ReadBack(fi) ==
    /\ pc = "written"
    /\ output.exc = "none"
    /\ reread' = Some(read_grammar(output.lines, validate, fi))
    /\ pc' = "reread"
    /\ UNCHANGED <<input, validate, grammar, raised, exc, warnings, result, output, tokenizer>>

\* read_grammar alone
Next ==
    \/ \E line \in InputLines, fi \in FileStates : ReadLine(line, fi)
    \/ EndOfInput

Spec == Init /\ [][Next]_vars

\* read_grammar, then write_grammar on its result, then read_grammar on the
\* text written
NextRoundTrip ==
    \/ \E line \in InputLines, fi \in FileStates :
           Len(input) < MaxWrittenLines /\ ReadLine(line, fi)
    \/ EndOfInput
    \/ WriteGrammar
    \/ \E fi \in FileStates : ReadBack(fi)

SpecRoundTrip == Init /\ [][NextRoundTrip]_vars

\* read_sequence(seqstr) is called on its own
InitTokenizer ==
    /\ seqstr \in SeqStrings
    /\ pos = 0
    /\ tokens = <<>>
    /\ tokpc = "matching"
    /\ tokerr = NoTokenError
    /\ tokresult = None
    /\ pc = "reading"
    /\ input = <<>>
    /\ validate = FALSE
    /\ pragmas = EmptyDict
    /\ functions = EmptyDict
    /\ linearizations = EmptyDict
    /\ sequences = EmptyDict
    /\ scores = EmptyDict
    /\ nonterms = EmptyDict
    /\ fun_arities = EmptyDict
    /\ seq_arities = EmptyDict
    /\ ident = ""
    /\ raised = NoError
    /\ exc = NoException
    /\ warnings = <<>>
    /\ result = None
    /\ output = NoOutput
    /\ reread = None

\* One iteration of `while pos < len(seqstr):` with a match: the token is
\* appended and pos moves to m.end()
TokenAppend ==
    /\ tokpc = "matching"
    /\ pos < Len(seqstr)
    /\ LET m == SEQ_REGEXP(seqstr, pos)
       IN /\ m.ok
          /\ IF m.group1 = None
             THEN tokens' = Append(tokens, Pair(int(m.group2), int(m.group3)))
             ELSE /\ eval(Val(m.group1)).ok
                  /\ tokens' = Append(tokens, Literal(eval(Val(m.group1)).chars))
          /\ pos' = m.end
    /\ UNCHANGED <<seqstr, tokpc, tokerr, tokresult>>
    /\ UNCHANGED <<pc, input, validate, grammar, raised, exc, warnings, result, output, reread>>

\* No match at pos: raise SyntaxError("Not a sequence token: %r" % (seqstr[pos:],))
TokenNoMatch ==
    /\ tokpc = "matching"
    /\ pos < Len(seqstr)
    /\ ~SEQ_REGEXP(seqstr, pos).ok
    /\ tokerr' = NotASequenceToken(SubSeq(seqstr, pos + 1, Len(seqstr)))
    /\ tokpc' = "raised"
    /\ UNCHANGED <<seqstr, pos, tokens, tokresult>>
    /\ UNCHANGED <<pc, input, validate, grammar, raised, exc, warnings, result, output, reread>>

\* eval(tok) raises: the SyntaxError of the literal leaves read_sequence
TokenEvalError ==
    /\ tokpc = "matching"
    /\ pos < Len(seqstr)
    /\ LET m == SEQ_REGEXP(seqstr, pos)
       IN m.ok /\ m.group1 # None /\ ~eval(Val(m.group1)).ok
    /\ tokerr' = TruncatedEscape
    /\ tokpc' = "raised"
    /\ UNCHANGED <<seqstr, pos, tokens, tokresult>>
    /\ UNCHANGED <<pc, input, validate, grammar, raised, exc, warnings, result, output, reread>>

\* pos has reached len(seqstr): return tokens
TokenReturn ==
    /\ tokpc = "matching"
    /\ pos >= Len(seqstr)
    /\ tokresult' = Some(tokens)
    /\ tokpc' = "returned"
    /\ UNCHANGED <<seqstr, pos, tokens, tokerr>>
    /\ UNCHANGED <<pc, input, validate, grammar, raised, exc, warnings, result, output, reread>>

NextTokenizer ==
    \/ TokenAppend
    \/ TokenNoMatch
    \/ TokenEvalError
    \/ TokenReturn

SpecTokenizer == InitTokenizer /\ [][NextTokenizer]_vars

\* ------------------------------------------------------------------------
\* Properties
\* ------------------------------------------------------------------------
\* The three namespaces of the grammar under construction
RuleIdents(rules) ==
    UNION {{rules[j].lhs} \cup {rules[j].rhs[n] : n \in DOMAIN rules[j].rhs} : j \in DOMAIN rules}
NonterminalIds == UNION {RuleIdents(functions[i].v) : i \in DOMAIN functions}
FunctionIds == Keys(functions) \cup Keys(linearizations)
SequenceIds == Keys(sequences)

\* The last line taken from the input, and the accumulator before it
LastLine == input[Len(input)]
Before == ReadLines(EmptyGrammar, SubSeq(input, 1, Len(input) - 1), 1).g

\* A line that reaches the rule / linearization branch with a well-formed body
IsRuleLine(line) ==
    /\ line.lead = "a"
    /\ is_identifier(Field(line.words, 1))
    /\ Field(line.words, 2) = RULE
    /\ read_rule(Rest(line.words, 2)).err = NoError
IsLinearizationLine(line) ==
    /\ line.lead = "a"
    /\ is_identifier(Field(line.words, 1))
    /\ Field(line.words, 2) = LINEARIZATION
    /\ read_linearization(Rest(line.words, 2)).err = NoError

\* C1: after every accepted prefix of the input no identifier is in two of
\* the namespaces nonterminal (LHS or RHS of a recorded rule), function
\* (owner of a rule or of a linearization) and sequence (given a body or
\* referenced by a linearization).
C1_NamespacesDisjoint ==
    raised = NoError =>
        /\ NonterminalIds \cap FunctionIds = {}
        /\ NonterminalIds \cap SequenceIds = {}
        /\ FunctionIds \cap SequenceIds = {}

\* C2: after every accepted prefix, each rule of a function that has a
\* linearization has an LHS whose recorded arity is the length of that
\* linearization, and the sweep never gives the arity-mismatch warning.
C2_ArityConsistent ==
    raised = NoError =>
        /\ \A i \in DOMAIN functions :
              Has(linearizations, functions[i].k) =>
                 \A j \in DOMAIN functions[i].v :
                    DictGet(nonterms, functions[i].v[j].lhs)
                        = Some(Len(Lookup(linearizations, functions[i].k)))
        /\ \A n \in DOMAIN warnings :
              warnings[n].kind # "Nonterminal does not match function"

\* A function was accepted with one rule before its linearization and one
\* rule after it
C2_Witness ==
    /\ raised = NoError
    /\ input = <<RuleSA, LinF2, RuleSAB>>

\* C3: a linearization line for an identifier that already has a
\* linearization aborts the read with a ValueError.
C3_DuplicateLinearizationIsValueError ==
    (/\ Len(input) >= 2
     /\ IsLinearizationLine(LastLine)
     /\ Has(Before.linearizations, Field(LastLine.words, 1)))
    => (pc = "aborted" /\ raised.type = "ValueError")

\* C4: a grammar read with validation and without warnings, written and read
\* again, gives the same pragmas, functions, linearizations, sequences and
\* scores, in the same order.
C4_RoundTrip ==
    (pc \in {"written", "reread"} /\ validate /\ warnings = <<>>) =>
        /\ output.exc = "none"
        /\ pc = "reread" =>
              /\ Val(reread).result # None
              /\ Val(Val(reread).result).pragmas = Val(result).pragmas
              /\ Val(Val(reread).result).functions = Val(result).functions
              /\ Val(Val(reread).result).linearizations = Val(result).linearizations
              /\ Val(Val(reread).result).sequences = Val(result).sequences
              /\ Val(Val(reread).result).scores = Val(result).scores

\* C5: when every line was accepted, read_grammar with validation returns
\* the grammar: the sweep raises nothing.
C5_SweepNeverRaises ==
    (validate /\ raised = NoError /\ pc # "reading") =>
        (exc = NoException /\ result # None)

\* C6 as stated: reading `f : S <- A` and then `f = l1 l2` aborts with a
\* semantic error.
C6_Example2Aborts ==
    input = <<RuleSA, LinF2>> => (pc = "aborted" /\ raised.type = "ValueError")

\* C6, amended: both lines are accepted; the rule leaves the arity of S
\* unknown and the linearization sets it to 2.
C6_Example2Accepted ==
    input = <<RuleSA, LinF2>> =>
        /\ raised = NoError
        /\ functions = <<[k |-> "f", v |-> <<[lhs |-> "S", rhs |-> <<"A">>]>>]>>
        /\ linearizations = <<[k |-> "f", v |-> <<"l1", "l2">>]>>
        /\ nonterms = <<[k |-> "A", v |-> None], [k |-> "S", v |-> Some(2)]>>

C6_Witness == input = <<RuleSA, LinF2>> /\ pc = "reading"

\* C7: the four lines of example 1 are read without an error; the nonterminal
\* arities are S = 2, A and B unknown, and the sweep reports A and B, not S,
\* as undefined nonterminals.
C7_Example1 ==
    input = <<RuleSAB, LinF2, SeqL1, SeqL2>> =>
        /\ raised = NoError
        /\ exc = NoException
        /\ nonterms = <<[k |-> "A", v |-> None], [k |-> "B", v |-> None],
                        [k |-> "S", v |-> Some(2)]>>
        /\ pc # "reading" =>
              /\ pc = "returned"
              /\ Val(result).nonterms = nonterms
              /\ validate =>
                    /\ warnings # <<>>
                    /\ warnings[1] = Warning("Undefined nonterminals", {"A", "B"}, <<>>)

C7_Witness ==
    input = <<RuleSAB, LinF2, SeqL1, SeqL2>> /\ pc = "returned" /\ validate

\* C8: a rule line whose LHS or RHS names an identifier that is already a
\* sequence or a function identifier aborts the read with a ValueError.
C8_ClashingRuleIsValueError ==
    (/\ Len(input) >= 1
     /\ IsRuleLine(LastLine)
     /\ LET p == read_rule(Rest(LastLine.words, 2))
        IN \E r \in {p.lhs} \cup {p.rhs[n] : n \in DOMAIN p.rhs} :
              \/ Has(Before.sequences, r)
              \/ Has(Before.functions, r)
              \/ Has(Before.linearizations, r))
    => (pc = "aborted" /\ raised.type = "ValueError" /\ exc.type = "ValueError")

\* C9: once a line has raised, the read is over: no grammar is returned, no
\* sweep has run, an exception has left read_grammar, and no step follows.
C9_FailFast ==
    /\ [](raised # NoError =>
             /\ pc = "aborted"
             /\ exc # NoException
             /\ result = None
             /\ warnings = <<>>)
    /\ [][raised # NoError => UNCHANGED vars]_vars

\* A line raised while more lines could have been read
C9_Witness ==
    /\ pc = "aborted"
    /\ raised.type \in {"SyntaxError", "ValueError"}
    /\ Len(input) >= 2
    /\ Len(input) < MaxLines

\* C10: a SyntaxError or ValueError raised for a line leaves read_grammar as
\* an error of the same kind, with the same message followed by the file name
\* and line number, or else by the raw line.
C10_KindAndContextKept ==
    raised.type \in {"SyntaxError", "ValueError"} =>
        /\ exc.type = raised.type
        /\ exc.msg = raised.msg
        /\ exc.ctx.line = LastLine
        /\ exc.ctx.file => exc.ctx.lineno = Len(input)

IsPragmaText(l) == l.lead = PRAGMA
IsRuleText(l) == l.lead = "a" /\ Len(l.words) >= 2 /\ l.words[2] = RULE
IsLinearizationText(l) == l.lead = "a" /\ Len(l.words) >= 2 /\ l.words[2] = LINEARIZATION
IsSequenceText(l) == l.lead = "a" /\ Len(l.words) >= 2 /\ l.words[2] = SEQUENCE
IsScoreText(l) == l.lead = "a" /\ Len(l.words) = 2 /\ l.words[2] \in ScoreTexts

\* C12: the text write_grammar printed holds, in the insertion order of each
\* mapping, exactly one rule line per (function, rule) pair, one
\* linearization line per function, one sequence line per sequence, one
\* score line per scored function and one pragma line per pragma payload.
C12_OneLinePerEntry ==
    (pc \in {"written", "reread"} /\ output.exc = "none") =>
        LET g == Val(result)
        IN /\ SelectSeq(output.lines, IsPragmaText) =
                  Flatten([i \in DOMAIN g.pragmas |->
                      [j \in DOMAIN g.pragmas[i].v |->
                          PragmaText(g.pragmas[i].k, g.pragmas[i].v[j])]])
           /\ SelectSeq(output.lines, IsRuleText) =
                  Flatten([i \in DOMAIN g.functions |->
                      [j \in DOMAIN g.functions[i].v |->
                          RuleText(g.functions[i].k, g.functions[i].v[j])]])
           /\ SelectSeq(output.lines, IsLinearizationText) =
                  [i \in DOMAIN g.linearizations |->
                      LinearizationText(g.linearizations[i].k, g.linearizations[i].v)]
           /\ SelectSeq(output.lines, IsSequenceText) =
                  [i \in DOMAIN g.sequences |->
                      SequenceText(g.sequences[i].k, g.sequences[i].v)]
           /\ SelectSeq(output.lines, IsScoreText) =
                  [i \in DOMAIN g.scores |->
                      Decl(<<g.scores[i].k, ScoreText(g.scores[i].v)>>)]

RECURSIVE WellEscaped(_, _)
\* In the body b of a string quoted by q every q and every backslash is
\* escaped by a backslash
WellEscaped(b, q) ==
    \/ b = <<>>
    \/ b[1] \notin {q, BS} /\ WellEscaped(Tail(b), q)
    \/ b[1] = BS /\ Len(b) >= 2 /\ WellEscaped(SubSeq(b, 3, Len(b)), q)

\* t is the text of a quoted literal; t is the text of an a:r reference
IsLiteralText(t) ==
    /\ Len(t) >= 2
    /\ t[1] \in {DQ, SQ}
    /\ t[Len(t)] = t[1]
    /\ WellEscaped(SubSeq(t, 2, Len(t) - 1), t[1])
IsArgRefText(t) ==
    \E k \in 2 .. (Len(t) - 1) :
        /\ t[k] = COLON
        /\ \A j \in (1 .. Len(t)) \ {k} : IsDigit(t[j])

\* The ends k of the tokens that start after position p of s: the text up to
\* k is a token and whitespace or the end of s follows
TokenEnds(s, p) ==
    {k \in (p + 1) .. Len(s) :
        /\ IsLiteralText(SubSeq(s, p + 1, k)) \/ IsArgRefText(SubSeq(s, p + 1, k))
        /\ k = Len(s) \/ IsSpace(s[k + 1])}

RECURSIVE TokenTextsFrom(_, _)
\* The texts of the tokens of s from position p on, and the remainder at the
\* first position where no token matches (None when there is none)
TokenTextsFrom(s, p) ==
    IF p >= Len(s) THEN [texts |-> <<>>, rest |-> None]
    ELSE IF TokenEnds(s, p) = {} THEN [texts |-> <<>>, rest |-> Some(SubSeq(s, p + 1, Len(s)))]
    ELSE LET k == CHOOSE e \in TokenEnds(s, p) : TRUE
             r == TokenTextsFrom(s, SpaceEnd(s, k + 1) - 1)
         IN [texts |-> <<SubSeq(s, p + 1, k)>> \o r.texts, rest |-> r.rest]

RECURSIVE DropBackslashes(_)
\* A body whose escapes are all of a quote or of a backslash, without the
\* escaping backslashes
DropBackslashes(b) ==
    IF b = <<>> THEN <<>>
    ELSE IF b[1] = BS THEN <<b[2]>> \o DropBackslashes(SubSeq(b, 3, Len(b)))
    ELSE <<b[1]>> \o DropBackslashes(Tail(b))

RECURSIVE OnlyQuoteEscapes(_)
OnlyQuoteEscapes(b) ==
    \/ b = <<>>
    \/ b[1] # BS /\ OnlyQuoteEscapes(Tail(b))
    \/ b[1] = BS /\ Len(b) >= 2 /\ b[2] \in {DQ, SQ, BS}
          /\ OnlyQuoteEscapes(SubSeq(b, 3, Len(b)))

\* Token tok is what the text t stands for: the pair of integers of a:r; a
\* string for a literal, which is the body without the escaping backslashes
\* when only quotes and backslashes are escaped in it
StandsFor(tok, t) ==
    IF IsArgRefText(t)
    THEN LET k == CHOOSE j \in 1 .. Len(t) : t[j] = COLON
         IN tok = Pair(int(SubSeq(t, 1, k - 1)), int(SubSeq(t, k + 1, Len(t))))
    ELSE LET b == SubSeq(t, 2, Len(t) - 1)
         IN /\ tok.kind = "str"
            /\ OnlyQuoteEscapes(b) => tok.chars = DropBackslashes(b)

\* C13: read_sequence returns the tokens of the body in input order, a
\* quoted literal unescaped and a:r as the pair (a, r), each token followed
\* by whitespace or the end; at the first position where no token matches it
\* raises SyntaxError with the unmatched remainder and returns no list; the
\* body "hi there" 0:1 'x' gives ["hi there", (0, 1), "x"].
C13_Tokenizer ==
    LET claim == TokenTextsFrom(seqstr, 0)
    IN /\ tokpc = "returned" =>
             /\ claim.rest = None
             /\ tokresult = Some(tokens)
             /\ Len(tokens) = Len(claim.texts)
             /\ \A i \in DOMAIN tokens : StandsFor(tokens[i], claim.texts[i])
       /\ tokpc = "raised" =>
             /\ claim.rest # None
             /\ tokerr = NotASequenceToken(Val(claim.rest))
             /\ tokresult = None
       /\ (tokpc \in {"returned", "raised"} /\ seqstr = Example4) =>
             tokresult = Some(<<Literal(HiThere), Pair(0, 1), Literal(<<120>>)>>)

\* The name and the payload of a pragma line: no name when whitespace
\* follows the marker, else the first word after it
PragmaName(line) == IF line.space THEN None ELSE Some(Field(line.words, 1))
PragmaPayload(line) == IF line.space THEN line.words ELSE Rest(line.words, 1)

\* C14: a pragma line is accepted whatever the accumulator holds: its payload
\* is appended to the list under its name (a new list when there was none),
\* the other pragma lists, functions, linearizations, sequences, scores and
\* nonterminal arities stay as they were; `: encoding utf8` alone gives the
\* list ["encoding utf8"] under the key None.
C14_PragmaAccepted ==
    /\ [][(Len(input') = Len(input) + 1 /\ input'[Len(input')].lead = PRAGMA) =>
            LET line == input'[Len(input')]
                name == PragmaName(line)
                old == IF name \in Keys(pragmas) THEN DictGet(pragmas, name) ELSE <<>>
            IN /\ raised' = NoError
               /\ pc' = "reading"
               /\ Keys(pragmas') = Keys(pragmas) \cup {name}
               /\ DictGet(pragmas', name) = Append(old, PragmaPayload(line))
               /\ \A k \in Keys(pragmas) \ {name} : DictGet(pragmas', k) = DictGet(pragmas, k)
               /\ UNCHANGED <<functions, linearizations, sequences, scores, nonterms>>]_vars
    /\ [](input = <<PragmaEncoding>> =>
            pragmas = <<[k |-> None, v |-> << <<"encoding", "utf8">> >>]>>)

C14_Witness ==
    /\ Len(input) >= 3
    /\ LastLine = PragmaEncoding
    /\ raised = NoError
    /\ functions # EmptyDict
    /\ Has(pragmas, None)
    /\ Len(Lookup(pragmas, None)) >= 2

\* The last line is a rule of a function with a linearization, or the
\* linearization of a function with rules, and an LHS it fixes to the length
\* of the linearization already has another number as its arity
RequiresOtherArity ==
    LET f == Field(LastLine.words, 1)
    IN \/ /\ IsRuleLine(LastLine)
          /\ Has(Before.linearizations, f)
          /\ DictGet(Before.nonterms, read_rule(Rest(LastLine.words, 2)).lhs)
                \notin {None, Some(Len(Lookup(Before.linearizations, f)))}
       \/ /\ IsLinearizationLine(LastLine)
          /\ Has(Before.functions, f)
          /\ \E j \in DOMAIN Lookup(Before.functions, f) :
                DictGet(Before.nonterms, Lookup(Before.functions, f)[j].lhs)
                    \notin {None, Some(Len(Rest(LastLine.words, 2)))}

\* C15: the arity recorded for a nonterminal changes only from unknown to a
\* number, and a rule or linearization line that needs another number for
\* it aborts the read with a ValueError.
C15_ArityFixedOnce ==
    /\ [][\A n \in Keys(nonterms) :
             DictGet(nonterms, n) # None => DictGet(nonterms', n) = DictGet(nonterms, n)]_vars
    /\ []((Len(input) >= 1 /\ RequiresOtherArity) =>
             (pc = "aborted" /\ raised.type = "ValueError" /\ exc.type = "ValueError"))

\* The nonterminals (LHS or RHS of a recorded rule) and the function
\* identifiers (owners of a rule or of a linearization) of an accumulator
NonterminalIdsOf(g) == UNION {RuleIdents(g.functions[i].v) : i \in DOMAIN g.functions}
FunctionIdsOf(g) == Keys(g.functions) \cup Keys(g.linearizations)

\* A line that reaches the sequence branch with a well-formed body
IsSequenceLine(line) ==
    /\ line.lead = "a"
    /\ is_identifier(Field(line.words, 1))
    /\ Field(line.words, 2) = SEQUENCE
    /\ read_sequence(Rest(line.words, 2)).err = NoError

\* C16: a sequence line for an identifier that an earlier rule has as LHS or
\* RHS, or that owns an earlier rule or linearization, is not accepted: the
\* line raises ValueError and the read is aborted.
C16_SequenceClashAborts ==
    (/\ Len(input) >= 1
     /\ IsSequenceLine(LastLine)
     /\ Field(LastLine.words, 1) \in NonterminalIdsOf(Before) \cup FunctionIdsOf(Before))
    => (pc = "aborted" /\ raised.type = "ValueError")

\* C17: a linearization line that references, as a sequence, an identifier
\* an earlier rule has as LHS or RHS, or that owns an earlier rule or
\* linearization, is not accepted: the line raises ValueError and the read
\* is aborted; so no sequence registered with unknown body is a nonterminal
\* or a function.
C17_ReferencedSequenceClashAborts ==
    /\ (/\ Len(input) >= 1
        /\ IsLinearizationLine(LastLine)
        /\ \E n \in DOMAIN Rest(LastLine.words, 2) :
              Rest(LastLine.words, 2)[n] \in NonterminalIdsOf(Before) \cup FunctionIdsOf(Before))
       => (pc = "aborted" /\ raised.type = "ValueError")
    /\ raised = NoError =>
          \A i \in DOMAIN sequences :
             sequences[i].v = None => sequences[i].k \notin NonterminalIds \cup FunctionIds

\* The names the sweep gave in its warnings of one kind
Reported(kind) == UNION {warnings[i].names : i \in {j \in DOMAIN warnings : warnings[j].kind = kind}}

\* C18: after an accepted input read with validation, the warning
\* "Undefined nonterminals" names exactly the identifiers that are LHS or RHS
\* of a recorded rule and have no number as arity, an LHS whose function got
\* no linearization among them.
C18_UndefinedNonterminalsReported ==
    (validate /\ raised = NoError /\ pc # "reading") =>
        Reported("Undefined nonterminals")
            = {n \in NonterminalIds : DictGet(nonterms, n) = None}

\* The (arg, ref) tokens of the sequences a linearization names, all of them
\* with a body
PairTokens(lin) ==
    {t \in UNION {{Val(Lookup(sequences, lin[n]))[m] :
                       m \in DOMAIN Val(Lookup(sequences, lin[n]))} : n \in DOMAIN lin} :
        IsTuple(t)}
MaxRef(lin, a) ==
    CHOOSE r \in {t.ref : t \in {u \in PairTokens(lin) : u.arg = a}} :
        \A t \in {u \in PairTokens(lin) : u.arg = a} : t.ref <= r

\* What the sweep is to say about argument a of a linearization lin of fun
\* for a rule with right-hand side rhs
ArgWarnings(fun, lin, rhs, a) ==
    IF a >= Len(rhs)
    THEN {Warning("Linearization refers to argument out of range", {fun}, <<a, Len(rhs)>>)}
    ELSE IF DictGet(nonterms, rhs[a + 1]) = None
    THEN {Warning("Missing definition for nonterminal", {rhs[a + 1]}, <<>>)}
    ELSE IF Val(DictGet(nonterms, rhs[a + 1])) <= MaxRef(lin, a)
    THEN {Warning("Reference does not match arity", {fun, rhs[a + 1]},
                  <<a, MaxRef(lin, a), Val(DictGet(nonterms, rhs[a + 1]))>>)}
    ELSE {}

ExpectedArgWarnings ==
    UNION {UNION {UNION {ArgWarnings(functions[i].k, Lookup(linearizations, functions[i].k),
                                     functions[i].v[j].rhs, a) :
                            a \in {t.arg : t \in PairTokens(Lookup(linearizations, functions[i].k))}} :
                     j \in DOMAIN functions[i].v} :
              i \in {n \in DOMAIN functions : Has(linearizations, functions[n].k)}}

ArgWarningKinds ==
    {"Linearization refers to argument out of range", "Missing definition for nonterminal",
     "Reference does not match arity"}

\* C19: in the sweep of an accepted grammar whose sequences all have a body,
\* every merged entry (arg -> maxref) of a function with a linearization and
\* a rule gives the out-of-range warning when arg >= len(rhs), and the sweep
\* goes on without looking up rhs[arg]; else it gives "Missing definition"
\* when rhs[arg] has no arity, "does not match arity" when the arity is
\* <= maxref, and nothing otherwise; read_grammar returns.
C19_ArgumentWarnings ==
    (/\ validate
     /\ raised = NoError
     /\ pc # "reading"
     /\ \A i \in DOMAIN sequences : sequences[i].v # None)
    => /\ exc = NoException
       /\ {warnings[i] : i \in {j \in DOMAIN warnings : warnings[j].kind \in ArgWarningKinds}}
             = ExpectedArgWarnings

\* The sequence identifiers without a body that the linearization of a
\* function with rules references
UndefinedReferenced ==
    UNION {{Lookup(linearizations, functions[i].k)[n] :
               n \in {m \in DOMAIN Lookup(linearizations, functions[i].k) :
                         DictGet(sequences, Lookup(linearizations, functions[i].k)[m]) = None}} :
              i \in {n \in DOMAIN functions : Has(linearizations, functions[n].k)}}

\* C20: with validation, when a function of the accepted grammar has rules
\* and a linearization that references a sequence without a body, the sweep
\* names that sequence in "Undefined sequences", raises nothing, and
\* read_grammar returns the grammar.
C20_UndefinedSequenceOnlyWarns ==
    (validate /\ raised = NoError /\ pc # "reading" /\ UndefinedReferenced # {}) =>
        /\ UndefinedReferenced \subseteq Reported("Undefined sequences")
        /\ exc.type \notin {"KeyError"}
        /\ (exc = NoException => result = Some(GrammarDict(G)))

====
